---- MODULE Spec2Model ----
(***************************************************************************)
(* The workflow session of intelliflow's web client: the AppProvider state *)
(* (web/context/AppContext.tsx), the three orchestrator operations         *)
(* uploadFile, processFile and chatWithWorkflow with their suspension      *)
(* points, the service wrappers they await (web/services/*.ts) and the UI  *)
(* handlers that call them.                                                *)
(*                                                                         *)
(* Execution model: one UI event loop.  The code of a handler up to its    *)
(* first await, and the code between two awaits, runs without              *)
(* interleaving and its state updates are committed together, so each is   *)
(* one action.  A call suspended at an await is an entry of tasks.         *)
(*                                                                         *)
(* The canvas of the flow builder (DnDFlow in FlowCanvas.tsx, the drag     *)
(* registry of DnDContext.tsx, the node list NodeOptions) is specified by  *)
(* SpecGraph, the session within one workflow page by Spec, and the        *)
(* session across workflow pages by SpecNav.                               *)
(***************************************************************************)
EXTENDS Integers, Sequences, FiniteSets, TLC

VARIABLES
    workflow,        \* useState<WorkflowState>(): the id, or NoWorkflow
    workflowStatus,  \* useState<'uploaded'|'processed'|'failed'>(), "unset" = undefined
    fileState,       \* useState<FileState>(): <<>> = undefined, <<r>> = r
    chatState,       \* useState<ChatState[]>([]), newest first
    loading,         \* useState({uploading, processing, chatting})
    tasks,           \* the calls suspended at an await, oldest first
    toasts,          \* the sonner notifications raised by the latest step
    ncalls,          \* the calls accepted so far (their number names grants and sends)
    ev,              \* the latest step: which handler or continuation ran, on what
    field,           \* KnowledgeBaseForm's form value 'file': NoFile = undefined
    nodes,           \* useNodesState(initialNodes): the nodes of the canvas, in order
    edges,           \* useEdgesState(initialEdges): the edges of the canvas, in order
    type,            \* DnDProvider's useState<string | null>(null): the dragged node type
    now,             \* the wall clock in milliseconds, what Date.now() returns
    gev,             \* the latest canvas event: which handler ran, on what
    llm              \* the useState cells of a mounted LLMNode, or NoLLM

\* the state of the AppProvider and its history
svars == <<workflow, workflowStatus, fileState, chatState, loading, tasks,
           toasts, ncalls, ev, field>>

\* the state of the canvas (DnDFlow), the DnDProvider and their history
gvars == <<nodes, edges, type, now, gev, llm>>

vars == <<workflow, workflowStatus, fileState, chatState, loading, tasks,
          toasts, ncalls, ev, field, nodes, edges, type, now, gev, llm>>

----------------------------------------------------------------------------
(* Bounds of the model *)

\* the upload, process and chat calls the session accepts in all
MaxCalls == 3

\* the milliseconds the wall clock advances while the canvas is edited
MaxClock == 1

\* the nodes and the edges the canvas takes
MaxNodes == 2
MaxEdges == 1

----------------------------------------------------------------------------
(* Values *)

NoWorkflow == "undefined"
Workflows == {"w1", "w2"}

NoFile == "undefined"
Files == {"a.pdf", "b.txt"}

\* Text is a sequence of characters, so that trim() has something to do.
Space == {" ", "\n"}
Messages == {<<>>, <<" ", "\n">>, <<"a">>, <<" ", "b", " ">>}
Replies == {<<"r">>}

FallbackMessage == <<"S", "o", "r", "r", "y">>

ToastUploadOk == "File Uploaded Successfully"
ToastUploadFailed == "Failed to Upload File"
ToastProcessOk == "File Processed Successfully"
ToastProcessFailed == "Failed to Process File"
ToastChatFailed == "Failed to chat with workflow"
ErrorToasts == {ToastUploadFailed, ToastProcessFailed, ToastChatFailed}

\* What the transport can do with a request.  resolve: a 2xx response, whose
\* body is null (hasBody = FALSE) or text; reject: network error or non-2xx
\* (axios rejects both; fetch resolves a non-2xx with ok = false: "notok").
Outcome(tag, hasBody, text) == [tag |-> tag, hasBody |-> hasBody, text |-> text]
NoOutcome == Outcome("none", FALSE, <<>>)
GrantOutcomes == {Outcome("resolve", TRUE, <<>>), Outcome("reject", FALSE, <<>>)}
PutOutcomes == {Outcome("ok", FALSE, <<>>), Outcome("notok", FALSE, <<>>),
                Outcome("reject", FALSE, <<>>)}
ProcessOutcomes == {Outcome("resolve", TRUE, <<"o", "k">>), Outcome("reject", FALSE, <<>>)}
ChatOutcomes == {Outcome("resolve", TRUE, r) : r \in Replies \cup {<<>>}}
                \cup {Outcome("resolve", FALSE, <<>>), Outcome("reject", FALSE, <<>>)}

\* The identity of the file record the server made for upload request n,
\* which carried workflow_id.
FileId(n, workflow_id) == [n |-> n, workflow_id |-> workflow_id]
NoFileId == FileId(0, NoWorkflow)

\* A suspended call.  n numbers the accepted calls; pre and solo
\* are history: the transcript when a send began, and whether no other send
\* has been in flight with it.
Task(kind, pc, n, file, wf, fileId, query, withCredentials, pre, solo) ==
    [kind |-> kind, pc |-> pc, n |-> n, file |-> file, wf |-> wf, fileId |-> fileId,
     query |-> query, withCredentials |-> withCredentials, pre |-> pre, solo |-> solo]
NoTask == Task("none", "none", 0, NoFile, NoWorkflow, NoFileId, <<>>, FALSE, <<>>, FALSE)

Event(op, file, message, accepted, task, out) ==
    [op |-> op, file |-> file, message |-> message, accepted |-> accepted,
     task |-> task, out |-> out]

Remove(s, i) == SubSeq(s, 1, i - 1) \o SubSeq(s, i + 1, Len(s))

InFlight(kind) == {i \in 1..Len(tasks) : tasks[i].kind = kind}

----------------------------------------------------------------------------
(* Pure functions of the code *)

RECURSIVE trimStart(_)
trimStart(s) == IF s # <<>> /\ Head(s) \in Space THEN trimStart(Tail(s)) ELSE s

RECURSIVE trimEnd(_)
trimEnd(s) ==
    IF s # <<>> /\ s[Len(s)] \in Space THEN trimEnd(SubSeq(s, 1, Len(s) - 1)) ELSE s

\* String.prototype.trim
trim(s) == trimEnd(trimStart(s))

\* What awaiting a service call yields: it throws (threw), or it returns the
\* variant: the transfer uses the credentials mode of the service calls
withCredentials_Always(client) == TRUE

\* Whether a request carries the session cookie: axiosClient is created
\* with withCredentials: true, the fetch of uploadFileToAWS has
\* credentials: 'omit'.
withCredentials(client) == client = "axiosClient"

\* APIResponse envelope, whose data is null (hasData = FALSE) or a payload.
\* Every wrapper below has its own try/catch and returns in both branches.
APIResponse(hasData, id, text) ==
    [threw |-> FALSE, hasData |-> hasData, id |-> id, text |-> text]

\* FileService.getUploadURL: the axios response, or data: null when it threw.
getUploadURL(out, n, workflow_id) ==
    IF out.tag = "resolve" /\ out.hasBody
    THEN APIResponse(TRUE, FileId(n, workflow_id), <<>>)
    ELSE APIResponse(FALSE, NoFileId, <<>>)

\* variant: a resolved fetch counts as success without testing res.ok
uploadFileToAWS_IgnoresOk(out) == [threw |-> FALSE, ok |-> out.tag # "reject"]

\* FileService.uploadFileToAWS: true iff fetch resolved with res.ok.
uploadFileToAWS(out) == [threw |-> FALSE, ok |-> out.tag = "ok"]

\* FileService.processDocument
processDocument(out) ==
    IF out.tag = "resolve" /\ out.hasBody
    THEN APIResponse(TRUE, NoFileId, out.text)
    ELSE APIResponse(FALSE, NoFileId, <<>>)

\* WorkflowService.chatWithWorkflow
chatService(out) ==
    IF out.tag = "resolve" /\ out.hasBody
    THEN APIResponse(TRUE, NoFileId, out.text)
    ELSE APIResponse(FALSE, NoFileId, <<>>)

\* if (res.data) on a string payload: not null and not ''
truthyText(res) == res.hasData /\ res.text # <<>>

\* res.data ?? fallback
orFallback(res) == IF res.hasData THEN res.text ELSE FallbackMessage

ChatEntry(role, message, n) == [role |-> role, message |-> message, n |-> n]

----------------------------------------------------------------------------
(* Values of the canvas *)

\* DnDContext: the registry holds a node type or null
NoType == "null"
\* the draggable entries of NodeOptions (two of nodeConfig's four)
NodeTypes == {"knowledgeBase", "llm"}

\* what screenToFlowPosition made of the pointer position of a drop
Positions == {[x |-> 0, y |-> 0]}

initialNodes == <<>>
initialEdges == <<>>

\* getId = () => `node-${Date.now()}`, t being what Date.now() returned
getId(t) == <<"node-", t>>

NodeIds == {getId(t) : t \in 0..MaxClock}

\* the Connection onConnect receives
Connection(source, target) == [source |-> source, target |-> target]
NoConnection == Connection("null", "null")
Connections == {Connection(a, b) : a, b \in NodeIds}

\* addEdge(params, eds) is the library's: it is given the connection and the
\* edges, never the nodes, and returns either the edges with the connection
\* added or the edges as they are.
AddEdgeResults == {"added", "same"}
addEdge(params, eds, result) == IF result = "added" THEN Append(eds, params) ELSE eds

\* newNode = { id: getId(), type, position, data: { label: `${type} node` } }
newNode(id, nodeType, position) ==
    [id |-> id, type |-> nodeType, position |-> position,
     data |-> [label |-> <<nodeType, " node">>]]

\* A canvas event: the handler, the registry it read, the connection it was
\* given and the error it raised ("none": it returned normally).
GraphEvent(op, nodeType, params, error) ==
    [op |-> op, type |-> nodeType, params |-> params, error |-> error]

\* LLMNodeData: the optional props of an LLM node.  An absent prop is
\* "undefined" (NoNumber for a number); a temperature is in hundredths.
NoNumber == -1
DefaultTemperature == 75
Temperatures == {0, 50, DefaultTemperature, 100}
LLMNodeData(model, temperature, webSearchEnabled) ==
    [model |-> model, temperature |-> temperature, webSearchEnabled |-> webSearchEnabled]
LLMNodeDatas ==
    {LLMNodeData(m, t, w) : m \in {"undefined", "gpt-4.1"},
                            t \in Temperatures \cup {NoNumber},
                            w \in {"undefined", "true", "false"}}

\* useState(data.model || 'gpt-5')
modelInit(data) == IF data.model # "undefined" THEN data.model ELSE "gpt-5"

\* useState<number>(data.temperature || 0.75)
temperatureInit(data) ==
    IF data.temperature # NoNumber /\ data.temperature # 0
    THEN data.temperature
    ELSE DefaultTemperature

\* useState<boolean>(data.webSearchEnabled || true)
webSearchEnabledInit(data) == (data.webSearchEnabled = "true") \/ TRUE

\* The state of a mounted LLMNode, with the data it was mounted with.
LLMState(data, model, temperature, webSearchEnabled) ==
    [data |-> data, model |-> model, temperature |-> temperature,
     webSearchEnabled |-> webSearchEnabled]
NoLLM == LLMState(LLMNodeData("undefined", NoNumber, "undefined"), "undefined", NoNumber,
                  FALSE)

----------------------------------------------------------------------------
Init ==
    /\ workflow = NoWorkflow
    /\ workflowStatus = "unset"
    /\ fileState = <<>>
    /\ chatState = <<>>
    /\ loading = [uploading |-> FALSE, processing |-> FALSE, chatting |-> FALSE]
    /\ tasks = <<>>
    /\ toasts = <<>>
    /\ ncalls = 0
    /\ ev = Event("init", NoFile, <<>>, FALSE, NoTask, NoOutcome)
    /\ field = NoFile
    /\ nodes = initialNodes
    /\ edges = initialEdges
    /\ type = NoType
    /\ now = 0
    /\ gev = GraphEvent("init", NoType, NoConnection, "none")
    /\ llm = NoLLM

----------------------------------------------------------------------------
(* The state updates of the orchestrator, AppContext.tsx *)

\* variant: the guard without the workflow test
uploadFilePre_NoWorkflowCheck(file) == file # NoFile

\* if (!file || !workflow?.id) return
uploadFilePre(file) == file # NoFile /\ workflow # NoWorkflow

\* if (!fileState || !fileState.id || !workflow?.id) return
processFilePre == fileState # <<>> /\ fileState[1].id # NoFileId /\ workflow # NoWorkflow

\* if (!workflow?.id) return
chatWithWorkflowPre == workflow # NoWorkflow

\* variant: the guard on the untrimmed text
handleSendMessagePre_Untrimmed(message) == message # <<>>

\* const msg = message.trim(); if (msg) ...
handleSendMessagePre(message) == trim(message) # <<>>

\* uploadFile's finally: setWorkflowStatus('failed')
uploadFileFinallyStatus(status) == "failed"

\* variant: the finally block leaves the status as the try block set it
processFileFinallyStatus_Keeps(status) == status

\* processFile's finally: setWorkflowStatus('failed')
processFileFinallyStatus(status) == "failed"

\* variant: the other flags are reset instead of kept
setLoading_DropsOthers(prev, flag, value) ==
    [[uploading |-> FALSE, processing |-> FALSE, chatting |-> FALSE] EXCEPT ![flag] = value]

\* variant: a flag, once set, is not cleared
setLoading_NeverClears(prev, flag, value) == [prev EXCEPT ![flag] = prev[flag] \/ value]

\* variant: clearing one flag clears all of them
setLoading_ClearsAll(prev, flag, value) ==
    IF value
    THEN [prev EXCEPT ![flag] = TRUE]
    ELSE [uploading |-> FALSE, processing |-> FALSE, chatting |-> FALSE]

\* setLoading(prev => ({ ...prev, [flag]: value }))
setLoading(prev, flag, value) == [prev EXCEPT ![flag] = value]

\* variant: a query equal to the newest user entry is not entered again
prependUser_Deduplicating(prev, query, n) ==
    IF prev # <<>> /\ prev[1].role = "user" /\ prev[1].message = query
    THEN prev
    ELSE <<ChatEntry("user", query, n)>> \o prev

\* variant: the new entry replaces the transcript
prependUser_Alone(prev, query, n) == <<ChatEntry("user", query, n)>>

\* setChatState(prev => [{ role: 'user', message: query }, ...prev])
prependUser(prev, query, n) == <<ChatEntry("user", query, n)>> \o prev

\* variant: the reply is put after the older entries
prependAssistant_AtEnd(prev, res, n) ==
    IF truthyText(res)
    THEN prev \o <<ChatEntry("assistant", orFallback(res), n)>>
    ELSE prev

\* variant: an entry is added whether or not the response carried data
prependAssistant_Always(prev, res, n) ==
    <<ChatEntry("assistant", orFallback(res), n)>> \o prev

\* variant: the reply is put below the entry it finds newest
prependAssistant_BelowNewest(prev, res, n) ==
    IF truthyText(res) /\ prev # <<>>
    THEN <<Head(prev), ChatEntry("assistant", orFallback(res), n)>> \o Tail(prev)
    ELSE prev

\* if (res.data) setChatState(prev => [{ role: 'assistant', message: res.data ?? ... }, ...prev])
prependAssistant(prev, res, n) ==
    IF truthyText(res)
    THEN <<ChatEntry("assistant", orFallback(res), n)>> \o prev
    ELSE prev

\* newFileState = { ...urlRes.data, file: file }
newFileState(id, file) == [id |-> id, file |-> file]

Idle(op, file, message) ==
    /\ ev' = Event(op, file, message, FALSE, NoTask, NoOutcome)
    /\ toasts' = <<>>
    /\ UNCHANGED <<workflow, workflowStatus, fileState, chatState, loading, tasks,
                   ncalls>>
    /\ UNCHANGED gvars

----------------------------------------------------------------------------
(* UI events *)

\* DnDFlow's effect on workflowId, workflow[1]({ ..., id: workflowId })
setWorkflow(w) ==
    /\ workflow' = w
    /\ ev' = Event("setWorkflow", NoFile, <<>>, TRUE, NoTask, NoOutcome)
    /\ toasts' = <<>>
    /\ UNCHANGED <<workflowStatus, fileState, chatState, loading, tasks, ncalls, field>>
    /\ UNCHANGED gvars

\* uploadFile up to its first await
uploadFile(file) ==
    IF uploadFilePre(file)
    THEN LET t == Task("upload", "getUploadURL", ncalls + 1, file, workflow, NoFileId,
                       <<>>, withCredentials("axiosClient"), <<>>, FALSE)
         IN  /\ ncalls < MaxCalls
             /\ loading' = setLoading(loading, "uploading", TRUE)
             /\ tasks' = Append(tasks, t)
             /\ ncalls' = ncalls + 1
             /\ ev' = Event("uploadFile", file, <<>>, TRUE, t, NoOutcome)
             /\ toasts' = <<>>
             /\ UNCHANGED <<workflow, workflowStatus, fileState, chatState>>
             /\ UNCHANGED gvars
    ELSE Idle("uploadFile", file, <<>>)

\* KnowledgeBaseForm.handleFileChange: the file input changed
\* if (file) { form.setValue('file', file); uploadFile(file) }
handleFileChange(file) ==
    IF file # NoFile
    THEN field' = file /\ uploadFile(file)
    ELSE UNCHANGED field /\ Idle("uploadFile", file, <<>>)

\* processFile up to its await: the Build Workflow button
processFile ==
    IF processFilePre
    THEN LET t == Task("process", "processDocument", ncalls + 1, NoFile, workflow,
                       fileState[1].id, <<>>, withCredentials("axiosClient"), <<>>, FALSE)
         IN  /\ ncalls < MaxCalls
             /\ loading' = setLoading(loading, "processing", TRUE)
             /\ tasks' = Append(tasks, t)
             /\ ncalls' = ncalls + 1
             /\ ev' = Event("processFile", NoFile, <<>>, TRUE, t, NoOutcome)
             /\ toasts' = <<>>
             /\ UNCHANGED <<workflow, workflowStatus, fileState, chatState, field>>
             /\ UNCHANGED gvars
    ELSE UNCHANGED field /\ Idle("processFile", NoFile, <<>>)

\* chatWithWorkflow up to its await
chatWithWorkflow(query, message) ==
    IF chatWithWorkflowPre
    THEN LET t == Task("chat", "chatWithWorkflow", ncalls + 1, NoFile, workflow,
                       NoFileId,
                       query, withCredentials("axiosClient"), chatState,
                       InFlight("chat") = {})
             overlapped == [i \in 1..Len(tasks) |->
                               IF tasks[i].kind = "chat"
                               THEN [tasks[i] EXCEPT !.solo = FALSE]
                               ELSE tasks[i]]
         IN  /\ ncalls < MaxCalls
             /\ loading' = setLoading(loading, "chatting", TRUE)
             /\ chatState' = prependUser(chatState, query, ncalls + 1)
             /\ tasks' = Append(overlapped, t)
             /\ ncalls' = ncalls + 1
             /\ ev' = Event("handleSendMessage", NoFile, message, TRUE, t, NoOutcome)
             /\ toasts' = <<>>
             /\ UNCHANGED <<workflow, workflowStatus, fileState, field>>
             /\ UNCHANGED gvars
    ELSE UNCHANGED field /\ Idle("handleSendMessage", NoFile, message)

\* Chatbox.handleSendMessage: the send button, or Enter in the text area
handleSendMessage(message) ==
    IF handleSendMessagePre(message)
    THEN chatWithWorkflow(trim(message), message)
    ELSE UNCHANGED field /\ Idle("handleSendMessage", NoFile, message)

----------------------------------------------------------------------------
\* A workflow page is opened in a session that has none yet
openWorkflow(w) == workflow = NoWorkflow /\ setWorkflow(w)

----------------------------------------------------------------------------
(* Continuations: a suspended call resumes with what its service returned *)

\* uploadFile after await FileService.getUploadURL
uploadFileAfterGetUploadURL(i, out) ==
    LET t == tasks[i]
        urlRes == getUploadURL(out, t.n, t.wf)
    IN  /\ t.pc = "getUploadURL"
        /\ ev' = Event("uploadFile:getUploadURL", t.file, <<>>, TRUE, t, out)
        /\ IF ~urlRes.threw /\ urlRes.hasData
           THEN /\ tasks' = [tasks EXCEPT ![i] =
                                [t EXCEPT !.pc = "uploadFileToAWS", !.fileId = urlRes.id,
                                          !.withCredentials = withCredentials("fetch")]]
                /\ toasts' = <<>>
                /\ UNCHANGED <<workflowStatus, loading>>
           ELSE /\ tasks' = Remove(tasks, i)
                /\ toasts' = IF urlRes.threw THEN <<ToastUploadFailed>> ELSE <<>>
                /\ workflowStatus' = uploadFileFinallyStatus(workflowStatus)
                /\ loading' = setLoading(loading, "uploading", FALSE)
        /\ UNCHANGED <<workflow, fileState, chatState, ncalls, field>>
        /\ UNCHANGED gvars

\* uploadFile after await FileService.uploadFileToAWS
uploadFileAfterUploadFileToAWS(i, out) ==
    LET t == tasks[i]
        uploadRes == uploadFileToAWS(out)
        stored == ~uploadRes.threw /\ uploadRes.ok
        afterTry == IF stored THEN "uploaded" ELSE workflowStatus
    IN  /\ t.pc = "uploadFileToAWS"
        /\ ev' = Event("uploadFile:uploadFileToAWS", t.file, <<>>, TRUE, t, out)
        /\ fileState' = IF stored THEN <<newFileState(t.fileId, t.file)>> ELSE fileState
        /\ toasts' = (IF stored THEN <<ToastUploadOk>> ELSE <<>>)
                     \o (IF uploadRes.threw THEN <<ToastUploadFailed>> ELSE <<>>)
        /\ workflowStatus' = uploadFileFinallyStatus(afterTry)
        /\ loading' = setLoading(loading, "uploading", FALSE)
        /\ tasks' = Remove(tasks, i)
        /\ UNCHANGED <<workflow, chatState, ncalls, field>>
        /\ UNCHANGED gvars

\* processFile after await FileService.processDocument
processFileAfterProcessDocument(i, out) ==
    LET t == tasks[i]
        res == processDocument(out)
        done == ~res.threw /\ truthyText(res)
        afterTry == IF done THEN "processed" ELSE workflowStatus
    IN  /\ t.pc = "processDocument"
        /\ ev' = Event("processFile:processDocument", NoFile, <<>>, TRUE, t, out)
        /\ toasts' = (IF done THEN <<ToastProcessOk>> ELSE <<>>)
                     \o (IF res.threw THEN <<ToastProcessFailed>> ELSE <<>>)
        /\ workflowStatus' = processFileFinallyStatus(afterTry)
        /\ loading' = setLoading(loading, "processing", FALSE)
        /\ tasks' = Remove(tasks, i)
        /\ UNCHANGED <<workflow, fileState, chatState, ncalls, field>>
        /\ UNCHANGED gvars

\* chatWithWorkflow after await WorkflowService.chatWithWorkflow
chatWithWorkflowAfterResponse(i, out) ==
    LET t == tasks[i]
        res == chatService(out)
    IN  /\ t.pc = "chatWithWorkflow"
        /\ ev' = Event("chatWithWorkflow:response", NoFile, <<>>, TRUE, t, out)
        /\ chatState' = IF res.threw THEN chatState ELSE prependAssistant(chatState, res, t.n)
        /\ toasts' = IF res.threw THEN <<ToastChatFailed>> ELSE <<>>
        /\ loading' = setLoading(loading, "chatting", FALSE)
        /\ tasks' = Remove(tasks, i)
        /\ UNCHANGED <<workflow, workflowStatus, fileState, ncalls, field>>
        /\ UNCHANGED gvars

----------------------------------------------------------------------------
Next ==
    \/ \E w \in Workflows : openWorkflow(w)
    \/ \E file \in Files \cup {NoFile} : handleFileChange(file)
    \/ processFile
    \/ \E message \in Messages : handleSendMessage(message)
    \/ \E i \in 1..Len(tasks), out \in GrantOutcomes : uploadFileAfterGetUploadURL(i, out)
    \/ \E i \in 1..Len(tasks), out \in PutOutcomes : uploadFileAfterUploadFileToAWS(i, out)
    \/ \E i \in 1..Len(tasks), out \in ProcessOutcomes : processFileAfterProcessDocument(i, out)
    \/ \E i \in 1..Len(tasks), out \in ChatOutcomes : chatWithWorkflowAfterResponse(i, out)

Spec == Init /\ [][Next]_vars

----------------------------------------------------------------------------
(* Navigation: the AppProvider sits in the dashboard layout, above the     *)
(* page, so its state stays when a workflow page is left and another one   *)
(* is opened; the page that opens runs the effect of DnDFlow.              *)
NextNav ==
    \/ \E w \in Workflows : setWorkflow(w)
    \/ \E file \in Files \cup {NoFile} : handleFileChange(file)
    \/ processFile
    \/ \E message \in Messages : handleSendMessage(message)
    \/ \E i \in 1..Len(tasks), out \in GrantOutcomes : uploadFileAfterGetUploadURL(i, out)
    \/ \E i \in 1..Len(tasks), out \in PutOutcomes : uploadFileAfterUploadFileToAWS(i, out)
    \/ \E i \in 1..Len(tasks), out \in ProcessOutcomes : processFileAfterProcessDocument(i, out)
    \/ \E i \in 1..Len(tasks), out \in ChatOutcomes : chatWithWorkflowAfterResponse(i, out)

SpecNav == Init /\ [][NextNav]_vars

----------------------------------------------------------------------------
(* The session driven through its controls only: a handler runs when the   *)
(* control it is bound to is rendered and not disabled.                    *)

\* KnowledgeBaseForm renders the file input when it shows neither the
\* spinner (loading.uploading) nor the name of the chosen file (field.value)
FileInputRendered == ~loading.uploading /\ field = NoFile

\* the send button: disabled={!message.trim() || loading.chatting}
SendButtonEnabled(message) == trim(message) # <<>> /\ ~loading.chatting

\* <input type='file' onChange={handleFileChange} />
fileInputChange(file) == FileInputRendered /\ handleFileChange(file)

\* the Build Workflow button: onClick={processFile}, never disabled
buildClick == processFile

\* the send button: onClick={handleSendMessage}
sendClick(message) == SendButtonEnabled(message) /\ handleSendMessage(message)

\* Chatbox.handleKeyPress: Enter without Shift calls handleSendMessage
handleKeyPress(message) == handleSendMessage(message)

NextUI ==
    \/ \E w \in Workflows : openWorkflow(w)
    \/ \E file \in Files \cup {NoFile} : fileInputChange(file)
    \/ buildClick
    \/ \E message \in Messages : sendClick(message)
    \/ \E message \in Messages : handleKeyPress(message)
    \/ \E i \in 1..Len(tasks), out \in GrantOutcomes : uploadFileAfterGetUploadURL(i, out)
    \/ \E i \in 1..Len(tasks), out \in PutOutcomes : uploadFileAfterUploadFileToAWS(i, out)
    \/ \E i \in 1..Len(tasks), out \in ProcessOutcomes : processFileAfterProcessDocument(i, out)
    \/ \E i \in 1..Len(tasks), out \in ChatOutcomes : chatWithWorkflowAfterResponse(i, out)

SpecUI == Init /\ [][NextUI]_vars

----------------------------------------------------------------------------
(* The session when every remote operation responds: a suspended call is   *)
(* resumed once its service call has settled.                              *)
Responds ==
    /\ WF_vars(\E i \in 1..Len(tasks), out \in GrantOutcomes :
                  uploadFileAfterGetUploadURL(i, out))
    /\ WF_vars(\E i \in 1..Len(tasks), out \in PutOutcomes :
                  uploadFileAfterUploadFileToAWS(i, out))
    /\ WF_vars(\E i \in 1..Len(tasks), out \in ProcessOutcomes :
                  processFileAfterProcessDocument(i, out))
    /\ WF_vars(\E i \in 1..Len(tasks), out \in ChatOutcomes :
                  chatWithWorkflowAfterResponse(i, out))

\* one workflow, one file and one message: what is sent does not matter to
\* whether a call completes
NextLive ==
    \/ openWorkflow("w1")
    \/ handleFileChange("a.pdf")
    \/ processFile
    \/ handleSendMessage(<<"a">>)
    \/ \E i \in 1..Len(tasks), out \in GrantOutcomes : uploadFileAfterGetUploadURL(i, out)
    \/ \E i \in 1..Len(tasks), out \in PutOutcomes : uploadFileAfterUploadFileToAWS(i, out)
    \/ \E i \in 1..Len(tasks), out \in ProcessOutcomes : processFileAfterProcessDocument(i, out)
    \/ \E i \in 1..Len(tasks), out \in ChatOutcomes : chatWithWorkflowAfterResponse(i, out)

SpecLive == Init /\ [][NextLive]_vars /\ Responds

----------------------------------------------------------------------------
(* The canvas: NodeOptions' drag handlers and DnDFlow's drop and connect   *)
(* handlers.  Each is one synchronous event handler, hence one action.     *)

\* NodeOptions.onDragStart: setType(nodeType)
onDragStart(nodeType) ==
    /\ type' = nodeType
    /\ gev' = GraphEvent("onDragStart", nodeType, NoConnection, "none")
    /\ UNCHANGED <<nodes, edges, now, llm>>
    /\ UNCHANGED svars

\* variant: the registry is left as it is
onDragEnd_KeepsType ==
    /\ gev' = GraphEvent("onDragEnd", type, NoConnection, "none")
    /\ UNCHANGED <<nodes, edges, type, now, llm>>
    /\ UNCHANGED svars

\* NodeOptions.onDragEnd: setType(null)
onDragEnd ==
    /\ type' = NoType
    /\ gev' = GraphEvent("onDragEnd", type, NoConnection, "none")
    /\ UNCHANGED <<nodes, edges, now, llm>>
    /\ UNCHANGED svars

\* DnDFlow.onDrop: if (!type) return; setNodes(nds => [...nds, newNode])
onDrop(position) ==
    /\ gev' = GraphEvent("onDrop", type, NoConnection, "none")
    /\ IF type = NoType
       THEN UNCHANGED nodes
       ELSE /\ Len(nodes) < MaxNodes
            /\ nodes' = Append(nodes, newNode(getId(now), type, position))
    /\ UNCHANGED <<edges, type, now, llm>>
    /\ UNCHANGED svars

\* DnDFlow.onConnect: setEdges(eds => addEdge(params, eds))
onConnect(params, result) ==
    /\ result = "added" => Len(edges) < MaxEdges
    /\ edges' = addEdge(params, edges, result)
    /\ gev' = GraphEvent("onConnect", type, params, "none")
    /\ UNCHANGED <<nodes, type, now, llm>>
    /\ UNCHANGED svars

\* a millisecond passes
tick ==
    /\ now < MaxClock
    /\ now' = now + 1
    /\ UNCHANGED <<nodes, edges, type, gev, llm>>
    /\ UNCHANGED svars

NextGraph ==
    \/ \E nodeType \in NodeTypes : onDragStart(nodeType)
    \/ onDragEnd
    \/ \E position \in Positions : onDrop(position)
    \/ \E params \in Connections, result \in AddEdgeResults : onConnect(params, result)
    \/ tick

SpecGraph == Init /\ [][NextGraph]_vars

----------------------------------------------------------------------------
(* An LLM node of the canvas: its first render and its inputs *)

\* LLMNode({ data }): the first render runs the useState initialisers
LLMNode(data) ==
    /\ llm' = LLMState(data, modelInit(data), temperatureInit(data),
                       webSearchEnabledInit(data))
    /\ gev' = GraphEvent("LLMNode", "llm", NoConnection, "none")
    /\ UNCHANGED <<nodes, edges, type, now>>
    /\ UNCHANGED svars

\* the Temperature input: onChange={e => setTemperature(parseFloat(e.target.value))}
setTemperature(value) ==
    /\ llm # NoLLM
    /\ llm' = [llm EXCEPT !.temperature = value]
    /\ gev' = GraphEvent("setTemperature", "llm", NoConnection, "none")
    /\ UNCHANGED <<nodes, edges, type, now>>
    /\ UNCHANGED svars

\* the WebSearch Tool switch: onCheckedChange={checked => setWebSearchEnabled(checked)}
setWebSearchEnabled(checked) ==
    /\ llm # NoLLM
    /\ llm' = [llm EXCEPT !.webSearchEnabled = checked]
    /\ gev' = GraphEvent("setWebSearchEnabled", "llm", NoConnection, "none")
    /\ UNCHANGED <<nodes, edges, type, now>>
    /\ UNCHANGED svars

NextLLM ==
    \/ \E data \in LLMNodeDatas : LLMNode(data)
    \/ \E value \in Temperatures : setTemperature(value)
    \/ \E checked \in BOOLEAN : setWebSearchEnabled(checked)

SpecLLM == Init /\ [][NextLLM]_vars

----------------------------------------------------------------------------
(* Properties.  ev names the step that led to the current state, so a      *)
(* statement about "the state after the call completes" is a statement     *)
(* about the states whose ev is that call's last continuation.             *)

ProcessCompleted == ev.op = "processFile:processDocument"
ChatCompleted == ev.op = "chatWithWorkflow:response"
Blank(s) == \A k \in 1..Len(s) : s[k] \in Space
UserEntryOf(t) == [role |-> "user", message |-> t.query, n |-> t.n]

\* The upload/process status the session shows: a busy flag, or the stored status.
Status ==
    IF loading.uploading THEN "uploading"
    ELSE IF loading.processing THEN "processing"
    ELSE workflowStatus

\* The edges of the status table of the specification.
StatusEdges ==
    {<<"unset", "uploading">>, <<"uploading", "uploaded">>, <<"uploading", "failed">>,
     <<"uploaded", "processing">>, <<"processing", "processed">>,
     <<"processing", "failed">>, <<"processed", "uploading">>, <<"failed", "uploading">>}

\* C1: when the upload target was granted and the transfer succeeded, the
\* state after the upload call completed has status uploaded and a File
\* Reference holding that grant and that file.
C1_SuccessfulUploadEndsUploaded ==
    (ev.op = "uploadFile:uploadFileToAWS" /\ ev.out.tag = "ok")
        => /\ workflowStatus = "uploaded"
           /\ fileState = <<[id |-> ev.task.fileId, file |-> ev.task.file]>>

\* C2: when the upload-target request or the transfer failed, the state after
\* the upload call completed has status failed and no File Reference,
\* whatever the session held before.
C2_FailedUploadHoldsNoFileReference ==
    (\/ ev.op = "uploadFile:getUploadURL" /\ ev.out.tag # "resolve"
     \/ ev.op = "uploadFile:uploadFileToAWS" /\ ev.out.tag # "ok")
        => workflowStatus = "failed" /\ fileState = <<>>

\* C3: after a process call completed the status is processed when the
\* remote operation succeeded and failed when it failed.
C3_ProcessEndsProcessedOrFailed ==
    ProcessCompleted
        => /\ ev.out.tag = "resolve" => workflowStatus = "processed"
           /\ ev.out.tag = "reject" => workflowStatus = "failed"

\* C4: the shown status moves only along the edges of the status table, and
\* a process call is accepted only while the status is uploaded.
C4_StatusFollowsTable ==
    [][/\ Status' # Status => <<Status, Status'>> \in StatusEdges
       /\ (ev'.op = "processFile" /\ ev'.accepted /\ ev' # ev) => Status = "uploaded"]_vars

\* C5: a send that had no other send in flight and whose response carried
\* content c leaves the transcript, newest first, as the assistant entry c,
\* the user entry q, then the transcript as it was before the send.
C5_ReplyThenQueryThenPrior ==
    (ChatCompleted /\ ev.task.solo /\ ev.out.tag = "resolve" /\ ev.out.hasBody
     /\ ev.out.text # <<>>)
        => chatState = <<[role |-> "assistant", message |-> ev.out.text, n |-> ev.task.n],
                         UserEntryOf(ev.task)>> \o ev.task.pre

C5_Witness ==
    /\ ChatCompleted /\ ev.task.solo /\ ev.out.tag = "resolve" /\ ev.out.text # <<>>
    /\ ev.task.pre # <<>>
    /\ Len(chatState) = Len(ev.task.pre) + 2

\* C6: a send whose response was successful but carried no content (null or
\* empty text) leaves the fallback message as the newest transcript entry,
\* and no assistant entry is blank.
C6_EmptyReplyGetsFallback ==
    /\ (ChatCompleted /\ ev.out.tag = "resolve" /\ (~ev.out.hasBody \/ ev.out.text = <<>>))
          => /\ chatState # <<>>
             /\ chatState[1].role = "assistant"
             /\ chatState[1].message = FallbackMessage
    /\ \A k \in 1..Len(chatState) :
          chatState[k].role = "assistant" => chatState[k].message # <<>>

\* C7: sending an empty or whitespace-only message changes neither the
\* transcript nor the busy flags and issues no remote call.
C7_BlankSendIsNoOp ==
    [][(ev'.op = "handleSendMessage" /\ Blank(ev'.message))
          => /\ chatState' = chatState
             /\ loading' = loading
             /\ tasks' = tasks
             /\ ncalls' = ncalls]_vars

C7_Witness ==
    /\ ev.op = "handleSendMessage" /\ ev.message # <<>> /\ Blank(ev.message)
    /\ workflow # NoWorkflow
    /\ chatState # <<>>
    /\ ~loading.chatting

\* C8: an upload without a file or without a workflow identity, and a process
\* without a File Reference or without a workflow identity, change nothing of
\* the session, issue no remote call and raise no notification.
C8_UnmetPreconditionIsSilentNoOp ==
    [][(\/ ev'.op = "uploadFile" /\ (ev'.file = NoFile \/ workflow = NoWorkflow)
        \/ ev'.op = "processFile" /\ (fileState = <<>> \/ workflow = NoWorkflow))
          => /\ UNCHANGED <<workflow, workflowStatus, fileState, chatState, loading,
                           tasks, ncalls>>
             /\ toasts' = <<>>]_vars

C8_Witness ==
    /\ ev.op = "processFile" /\ ~ev.accepted
    /\ workflow # NoWorkflow /\ fileState = <<>>
    /\ loading.uploading /\ chatState # <<>>

\* C9 as stated: after a send whose remote call failed, the transcript is
\* the user entry of that send prepended to the transcript as it was before
\* the send, and the chatting flag is cleared.
C9_FailedSendLeavesUserThenPrior ==
    (ChatCompleted /\ ev.out.tag = "reject")
        => /\ chatState = <<UserEntryOf(ev.task)>> \o ev.task.pre
           /\ ~loading.chatting

\* C9 amended: after a send whose remote call failed, the transcript holds
\* the user entry of that send and no assistant entry for it, and the
\* chatting flag is cleared; the transcript is that user entry prepended to
\* the transcript before the send when no other send was in flight with it.
C9_FailedSendAddsNoAssistant ==
    (ChatCompleted /\ ev.out.tag = "reject")
        => /\ \E k \in 1..Len(chatState) : chatState[k] = UserEntryOf(ev.task)
           /\ \A k \in 1..Len(chatState) :
                 ~(chatState[k].role = "assistant" /\ chatState[k].n = ev.task.n)
           /\ ev.task.solo => chatState = <<UserEntryOf(ev.task)>> \o ev.task.pre
           /\ ~loading.chatting

C9_Witness ==
    /\ ChatCompleted /\ ev.out.tag = "reject" /\ ~ev.task.solo
    /\ chatState # <<UserEntryOf(ev.task)>> \o ev.task.pre

\* C10: every remote operation that failed in transport (upload-target
\* request, transfer, process-document, chat) has raised a failure
\* notification when its call completes.
C10_FailureIsNotified ==
    (/\ ev.op \in {"uploadFile:getUploadURL", "uploadFile:uploadFileToAWS",
                   "processFile:processDocument", "chatWithWorkflow:response"}
     /\ ev.out.tag \in {"reject", "notok"})
        => \E k \in 1..Len(toasts) : toasts[k] \in ErrorToasts

----------------------------------------------------------------------------
(* Properties of the canvas *)

IdsOf(nds) == {nds[k].id : k \in 1..Len(nds)}
Dropped == gev.op = "onDrop"

\* C11: the identities of the nodes of the canvas are pairwise distinct,
\* also when two nodes are created within the same clock millisecond.
C11_NodeIdsDistinct ==
    \A i, j \in 1..Len(nodes) : i # j => nodes[i].id # nodes[j].id

\* C13: a connect inserts the edge exactly when both endpoints are
\* identities of current nodes, and otherwise fails with UnknownEndpoint and
\* leaves the edges unchanged; a connection that duplicates an edge or
\* closes a cycle is inserted like any other.
C13_ConnectChecksEndpointsOnly ==
    [][(gev'.op = "onConnect" /\ (gev' # gev \/ edges' # edges))
          => IF {gev'.params.source, gev'.params.target} \subseteq IdsOf(nodes)
             THEN edges' = Append(edges, gev'.params) /\ gev'.error = "none"
             ELSE edges' = edges /\ gev'.error = "UnknownEndpoint"]_vars

\* C14: the end of a drag leaves the registry empty whether or not a drop
\* occurred, a drop while the registry is empty leaves nodes and edges
\* unchanged, and a node a drop creates has the type the registry holds at
\* that drop, never one of a drag that has ended.
C14_EndedDragLeavesNoType ==
    [][/\ (gev'.op = "onDragEnd") => type' = NoType
       /\ (gev'.op = "onDrop" /\ type = NoType) => (nodes' = nodes /\ edges' = edges)
       /\ nodes' # nodes
             => /\ type # NoType
                /\ nodes' = Append(nodes, nodes'[Len(nodes')])
                /\ nodes'[Len(nodes')].type = type]_vars

C14_Witness ==
    /\ Dropped /\ gev.type = NoType /\ type = NoType
    /\ nodes # <<>>
    /\ \E k \in 1..Len(nodes) : nodes[k].type = "llm"
    /\ \E k \in 1..Len(nodes) : nodes[k].type = "knowledgeBase"

----------------------------------------------------------------------------
(* Properties of the session under overlapping calls *)

CountRole(s, role) == Cardinality({k \in 1..Len(s) : s[k].role = role})
ChatStep == ev'.op \in {"handleSendMessage", "chatWithWorkflow:response"}
FileStep ==
    ev'.op \in {"uploadFile", "uploadFile:getUploadURL", "uploadFile:uploadFileToAWS",
                "processFile", "processFile:processDocument"}

\* C15: every step leaves the transcript unchanged or puts exactly one entry
\* in front of it (newest first); no entry is removed, moved or altered.
C15_TranscriptAppendOnly ==
    [][\/ chatState' = chatState
       \/ /\ Len(chatState') = Len(chatState) + 1
          /\ Tail(chatState') = chatState]_vars

C15_Witness ==
    /\ ChatCompleted /\ ~ev.task.solo
    /\ Len(chatState) >= 4
    /\ chatState[1].role = "assistant" /\ chatState[1].n = ev.task.n
    /\ InFlight("chat") # {}

\* C16: every assistant entry is newer than the user entry of the send that
\* triggered it, and, read oldest first, every prefix of the transcript has
\* at least as many user entries as assistant entries.
C16_AssistantAfterItsUser ==
    /\ \A k \in 1..Len(chatState) :
          chatState[k].role = "assistant"
             => \E j \in (k + 1)..Len(chatState) :
                   chatState[j].role = "user" /\ chatState[j].n = chatState[k].n
    /\ \A k \in 1..Len(chatState) :
          LET oldest == SubSeq(chatState, k, Len(chatState))
          IN  CountRole(oldest, "user") >= CountRole(oldest, "assistant")

C16_Witness ==
    /\ Len(chatState) >= 4
    /\ chatState[1].role = "assistant" /\ chatState[2].role = "assistant"
    /\ chatState[1].n < chatState[2].n
    /\ chatState[3].role = "user" /\ chatState[3].n = chatState[2].n

\* C17: while an upload call is in flight the uploading flag is set, while
\* a process call is in flight the processing flag is set, and while a send
\* is in flight the chatting flag is set, also when calls of one operation
\* overlap.
C17_BusyWhileInFlight ==
    /\ InFlight("upload") # {} => loading.uploading
    /\ InFlight("process") # {} => loading.processing
    /\ InFlight("chat") # {} => loading.chatting

\* C18: a step of a send changes neither the upload/process status nor the
\* File Reference, and a step of an upload or process call changes neither
\* the transcript nor the chatting flag.
C18_OperationsIsolated ==
    [][/\ ChatStep => /\ workflowStatus' = workflowStatus
                      /\ fileState' = fileState
                      /\ Status' = Status
       /\ FileStep => /\ chatState' = chatState
                      /\ loading'.chatting = loading.chatting]_vars

C18_Witness ==
    /\ ChatCompleted /\ ev.out.tag = "reject"
    /\ InFlight("upload") # {} /\ loading.uploading
    /\ fileState # <<>> /\ workflowStatus = "failed"

----------------------------------------------------------------------------
(* Properties of the session across workflow pages *)

Completion ==
    ev'.op \in {"uploadFile:getUploadURL", "uploadFile:uploadFileToAWS",
                "processFile:processDocument", "chatWithWorkflow:response"}

\* C19: when the active workflow identity changes from one workflow to
\* another, the File Reference, the status and the transcript of the first
\* are gone, and no process call sends a file identity obtained under one
\* workflow together with the identity of another.
C19_FileReferenceEndsWithSession ==
    [][/\ (workflow # NoWorkflow /\ workflow' # workflow)
             => (fileState' = <<>> /\ workflowStatus' = "unset" /\ chatState' = <<>>)
       /\ \A i \in 1..Len(tasks') :
             tasks'[i].kind = "process"
                => tasks'[i].fileId.workflow_id = tasks'[i].wf]_vars

\* C20: the response to a call issued under a workflow identity that is no
\* longer the active one changes neither the transcript nor the status nor
\* the File Reference.
C20_StaleResponseIgnored ==
    [][(Completion /\ ev'.task.wf # workflow)
          => (chatState' = chatState /\ workflowStatus' = workflowStatus
              /\ fileState' = fileState)]_vars

----------------------------------------------------------------------------
(* Properties of the session driven through its controls *)

UserStep == ev'.op \in {"setWorkflow", "uploadFile", "processFile", "handleSendMessage"}

\* C21: an upload with a file and a workflow identity is accepted from
\* status failed, sets the uploading flag and issues a new upload-target
\* request; after a failed attempt the upload control still offers the file
\* input; and only a user invocation issues a remote call.
C21_RetryIsOpenAndUserInitiated ==
    [][/\ (ev'.op = "uploadFile" /\ ev'.file # NoFile /\ workflow # NoWorkflow
           /\ workflowStatus = "failed" /\ ev' # ev)
             => /\ ev'.accepted /\ loading'.uploading
                /\ tasks' = Append(tasks, ev'.task)
                /\ ev'.task.pc = "getUploadURL"
       /\ (workflowStatus' = "failed" /\ InFlight("upload")' = {})
             => FileInputRendered'
       /\ (ncalls' # ncalls \/ Len(tasks') > Len(tasks)) => UserStep]_vars

\* C24: driven through the controls, at most one call of each operation
\* kind is in flight at any time.
C24_OneInFlightPerOperation ==
    \A kind \in {"upload", "process", "chat"} : Cardinality(InFlight(kind)) <= 1

----------------------------------------------------------------------------
(* Further properties of the session *)

\* C22: the transfer to the granted storage URL never carries the session
\* credential; the upload-target request, the process call and the chat
\* call carry it.
C22_TransferOmitsCredentials ==
    \A i \in 1..Len(tasks) :
        /\ tasks[i].pc = "uploadFileToAWS" => ~tasks[i].withCredentials
        /\ tasks[i].pc \in {"getUploadURL", "processDocument", "chatWithWorkflow"}
              => tasks[i].withCredentials

C22_Witness ==
    /\ \E i \in 1..Len(tasks) : tasks[i].pc = "uploadFileToAWS"
    /\ \E i \in 1..Len(tasks) : tasks[i].pc = "getUploadURL"
    /\ \E i \in 1..Len(tasks) : tasks[i].pc = "chatWithWorkflow"

----------------------------------------------------------------------------
(* Properties of an LLM node *)

\* C26: a newly mounted LLM node has web search off and temperature 0.75
\* when its data supplies neither, and its web-search setting equals the
\* value its data supplies when there is one.
C26_LLMNodeDefaults ==
    gev.op = "LLMNode"
        => /\ llm.data.webSearchEnabled = "undefined" => ~llm.webSearchEnabled
           /\ llm.data.webSearchEnabled = "true" => llm.webSearchEnabled
           /\ llm.data.webSearchEnabled = "false" => ~llm.webSearchEnabled
           /\ llm.data.temperature = NoNumber => llm.temperature = DefaultTemperature

Suspended(n) == \E i \in 1..Len(tasks) : tasks[i].n = n
Users == CountRole(chatState, "user")
Assistants == CountRole(chatState, "assistant")

\* C23: while a send is in flight, from the step that issued the remote
\* call until its response is handled, its user entry is in the transcript
\* and the chatting flag is set.
C23_UserEntryAndFlagWhileInFlight ==
    \A i \in InFlight("chat") :
        /\ \E k \in 1..Len(chatState) : chatState[k] = UserEntryOf(tasks[i])
        /\ loading.chatting

\* C25: every upload and process call that passed its preconditions ends
\* by clearing its busy flag and setting the status to failed, on the
\* success path too; whenever the uploading or the processing flag goes from
\* set to cleared the status is failed.
C25_CleanupForcesFailed ==
    [][/\ (\/ loading.uploading /\ ~loading'.uploading
           \/ loading.processing /\ ~loading'.processing)
             => workflowStatus' = "failed"
       /\ (Len(tasks') < Len(tasks) /\ ev'.task.kind = "upload")
             => (workflowStatus' = "failed" /\ ~loading'.uploading)
       /\ (Len(tasks') < Len(tasks) /\ ev'.task.kind = "process")
             => (workflowStatus' = "failed" /\ ~loading'.processing)]_vars

C25_Witness ==
    /\ ev.op = "uploadFile:uploadFileToAWS" /\ ev.out.tag = "ok"
    /\ fileState = <<[id |-> ev.task.fileId, file |-> ev.task.file]>>
    /\ workflowStatus = "failed" /\ ~loading.uploading

\* C27: when no call is in flight the three busy flags are false; every
\* accepted call is eventually completed and every busy flag that is set is
\* eventually cleared, provided every remote operation responds.
C27_FlagsEventuallyClear ==
    /\ [](tasks = <<>>
            => (~loading.uploading /\ ~loading.processing /\ ~loading.chatting))
    /\ \A n \in 1..MaxCalls : Suspended(n) ~> ~Suspended(n)
    /\ \A flag \in {"uploading", "processing", "chatting"} :
          loading[flag] ~> ~loading[flag]

C27_Witness ==
    /\ tasks = <<>> /\ ncalls = MaxCalls
    /\ ev.op = "chatWithWorkflow:response" /\ ~ev.task.solo
    /\ ~loading.chatting

\* C28: a step of an upload changes no flag but uploading, a step of a
\* process call none but processing, a step of a send none but chatting.
C28_FlagUpdatesPerFlag ==
    [][\A flag \in {"uploading", "processing", "chatting"} :
          loading'[flag] # loading[flag]
             => \/ flag = "uploading"
                   /\ ev'.op \in {"uploadFile", "uploadFile:getUploadURL",
                                  "uploadFile:uploadFileToAWS"}
                \/ flag = "processing"
                   /\ ev'.op \in {"processFile", "processFile:processDocument"}
                \/ flag = "chatting" /\ ChatStep]_vars

C28_Witness ==
    /\ ev.op = "processFile:processDocument"
    /\ loading = [uploading |-> FALSE, processing |-> FALSE, chatting |-> TRUE]
    /\ InFlight("chat") # {}

\* C29: an accepted send adds exactly one user entry, a response that
\* carries content exactly one assistant entry, and no other step adds or
\* removes an entry; so the user entries number the accepted sends and the
\* assistant entries the responses with content, and no two entries of one
\* role belong to the same send.
C29_EntriesMatchSends ==
    [][/\ IF ev'.op = "handleSendMessage" /\ ev'.accepted /\ ncalls' # ncalls
          THEN Users' = Users + 1 /\ Assistants' = Assistants
          ELSE IF /\ ev'.op = "chatWithWorkflow:response" /\ Len(tasks') < Len(tasks)
                  /\ ev'.out.tag = "resolve" /\ ev'.out.hasBody /\ ev'.out.text # <<>>
               THEN Users' = Users /\ Assistants' = Assistants + 1
               ELSE Users' = Users /\ Assistants' = Assistants
       /\ \A j, k \in 1..Len(chatState') :
             (j # k /\ chatState'[j].role = chatState'[k].role)
                => chatState'[j].n # chatState'[k].n]_vars

C29_Witness ==
    /\ InFlight("chat") = {} /\ ncalls = MaxCalls
    /\ Users = MaxCalls /\ Assistants = MaxCalls - 1
    /\ ~ev.task.solo

\* C30: the File Reference changes only when an upload whose grant and
\* transfer both succeeded completes, and then holds that call's grant and
\* file, so the one retained is that of the transfer that completed last; a
\* process call is issued only with a File Reference in place, and a
\* transfer is in flight only with the grant of its own call.
C30_FileReferenceOnlyBySuccessfulUpload ==
    [][/\ fileState' # fileState
             => /\ ev'.op = "uploadFile:uploadFileToAWS" /\ ev'.out.tag = "ok"
                /\ ev'.task.pc = "uploadFileToAWS"
       /\ (ev'.op = "uploadFile:uploadFileToAWS" /\ ev'.out.tag = "ok"
           /\ Len(tasks') < Len(tasks))
             => fileState' = <<[id |-> FileId(ev'.task.n, ev'.task.wf),
                                file |-> ev'.task.file]>>
       /\ \A i \in 1..Len(tasks') :
             /\ tasks'[i].kind = "process"
                   => (fileState' # <<>> /\ tasks'[i].fileId.n # 0)
             /\ tasks'[i].pc = "uploadFileToAWS"
                   => tasks'[i].fileId = FileId(tasks'[i].n, tasks'[i].wf)]_vars

C30_Witness ==
    /\ ev.op = "uploadFile:uploadFileToAWS" /\ ev.out.tag = "ok"
    /\ fileState = <<[id |-> ev.task.fileId, file |-> ev.task.file]>>
    /\ \E i \in 1..Len(tasks) : tasks[i].kind = "upload" /\ tasks[i].n < ev.task.n

====
